---- MODULE Spec2Model ----
(***************************************************************************)
(* Model of the bookstore catalog server (src/root/server.js): the startup *)
(* sequence (environment check, MongoDB connect, app.listen), the five     *)
(* /api/books route handlers over the Books collection, and the two signed *)
(* URL endpoints.  Each route handler performs at most one store operation *)
(* so it is one atomic action taken at that operation; concurrent requests *)
(* are interleavings of these actions.                                     *)
(***************************************************************************)
EXTENDS Integers, Sequences, FiniteSets

VARIABLES
  pc,               \* where the startup sequence stands
  booksCollection,  \* the module-level collection handle (line 33)
  store,            \* the documents of the Books collection, in insertion order
  now,              \* the wall clock in milliseconds (Date.now(), new Date())
  index,            \* the driver's ObjectId counter
  nextId,           \* the uuid generator: the number of the next id it issues
  resp,             \* the last response sent, with the request it answers
  created,          \* history: by id, the 201 body of each POST (NoDoc when the
                    \* insert failed, a tombstone once the record is deleted)
  updated,          \* history: ids of the records in the collection a PUT updated
  deleted,          \* history: ids a DELETE was answered 200 for
  sasLog            \* history: blob names returned by POST /api/generate-sas

vars == <<pc, booksCollection, store, now, index, nextId, resp,
          created, updated, deleted, sasLog>>

(* ------------------------------ bounds --------------------------------- *)
\* number of uuids the model lets POST /api/books draw
MaxBooks == 2
\* number of clock advances
MaxTicks == 1
\* number of successful POST /api/generate-sas responses that are logged
MaxSas == 2
\* the clock reading at process start, in milliseconds
StartMs == 500
\* number of uuids drawn when the catalog and signed URL routes run together
ApiBooks == 1
\* milliseconds per clock advance
TickMs == 1000

(* --------------------------- program constants ------------------------- *)
\* 5 * 60 * 1000
UploadWindowMs == 300000
\* 10 * 60 * 1000
ReadWindowMs == 600000
\* the driver's ObjectId counter is three bytes wide: (index + 1) % 0xffffff
ObjectIdCounterMod == 16777215
\* ObjectId timestamps and SAS token times have one-second resolution
MsPerSecond == 1000

(* ------------------------------ values --------------------------------- *)
\* a JavaScript undefined value; in a JSON body, a key that is not there
Absent == "undefined"
\* a JSON / BSON null
Null == "null"
\* a document without the key updatedAt
NoDate == -1
NoObjectId == <<-1, -1>>

NoDoc == [_id |-> NoObjectId, id |-> 0, title |-> Absent, author |-> Absent,
          price |-> Absent, coverBlob |-> Absent, createdAt |-> NoDate,
          updatedAt |-> NoDate]

NoBody == [title |-> Absent, author |-> Absent, price |-> Absent, coverBlob |-> Absent]

\* request bodies of POST /api/books: { title, author, price, coverBlob }, one the
\* handler accepts (the cover is optional), one without title, one with author ""
PostBodies ==
  { [title |-> "A", author |-> "B", price |-> "9.99", coverBlob |-> Absent],
    [title |-> Absent, author |-> "B", price |-> "9.99", coverBlob |-> Absent],
    [title |-> "A", author |-> "", price |-> Absent, coverBlob |-> Absent] }

\* request bodies of PUT /api/books/:id: one without price, one with price only
PutBodies ==
  { [title |-> "T", author |-> "U", price |-> Absent, coverBlob |-> "covers/1-c.png"],
    [title |-> Absent, author |-> Absent, price |-> "7", coverBlob |-> Absent] }

\* an id the server never issues
UnknownId == MaxBooks + 1

\* every uuid the server can issue, and the one it never issues
Ids == 1 .. UnknownId

\* JavaScript !v for the values a body field takes
Falsy(v) == v \in {Absent, Null, ""}

\* BSON serialization with the driver's default ignoreUndefined: false:
\* a key whose value is undefined is stored as null
bsonValue(v) == IF v = Absent THEN Null ELSE v

bsonSerialize(doc) ==
  [doc EXCEPT !.title = bsonValue(doc.title), !.author = bsonValue(doc.author),
              !.price = bsonValue(doc.price), !.coverBlob = bsonValue(doc.coverBlob)]

(* --------------------------- ObjectId and sort ------------------------- *)
\* ObjectId.generate: seconds since the epoch, then the incremented counter
ObjectIdGenerate(t, inc) == <<t \div MsPerSecond, inc>>

getInc(i) == (i + 1) % ObjectIdCounterMod

\* byte order of two ObjectIds of one process
ObjectIdGreater(a, b) == a[1] > b[1] \/ (a[1] = b[1] /\ a[2] > b[2])

RemoveAt(s, i) == [j \in 1 .. (Len(s) - 1) |-> IF j < i THEN s[j] ELSE s[j + 1]]

RECURSIVE SortDescById(_)
SortDescById(docs) ==
  IF docs = <<>> THEN <<>>
  ELSE LET i == CHOOSE k \in DOMAIN docs :
                  \A j \in DOMAIN docs : ~ObjectIdGreater(docs[j]._id, docs[k]._id)
       IN <<docs[i]>> \o SortDescById(RemoveAt(docs, i))

\* booksCollection.find({}).sort({ _id: -1 }).toArray()
listBooks == SortDescById(store)

(* --------------------------- collection queries ------------------------ *)
Matches(id) == {i \in DOMAIN store : store[i].id = id}

FirstMatch(id) == CHOOSE i \in Matches(id) : \A j \in Matches(id) : i <= j

\* booksCollection.findOne({ id })
findOne(id) == IF Matches(id) = {} THEN NoDoc ELSE store[FirstMatch(id)]

\* deleteOne({ _id: id }): the filter names the database key, which no uuid equals
deleteOneByObjectId(id) == store

\* the collection after booksCollection.deleteOne({ id })
deleteOne(id) == IF Matches(id) = {} THEN store ELSE RemoveAt(store, FirstMatch(id))

\* a $set built from the fields the request provides only
setProvidedFields(doc, body, t) ==
  [doc EXCEPT !.title = IF body.title = Absent THEN @ ELSE body.title,
              !.author = IF body.author = Absent THEN @ ELSE body.author,
              !.price = IF body.price = Absent THEN @ ELSE body.price,
              !.coverBlob = IF body.coverBlob = Absent THEN @ ELSE body.coverBlob,
              !.updatedAt = t]

\* the $set document of PUT
setFields(doc, body, t) ==
  [doc EXCEPT !.title = bsonValue(body.title), !.author = bsonValue(body.author),
              !.price = bsonValue(body.price), !.coverBlob = bsonValue(body.coverBlob),
              !.updatedAt = t]

\* findOneAndUpdate with upsert: true, which inserts when nothing matches
findOneAndUpdateUpsert(id, body, t) ==
  IF Matches(id) = {}
  THEN Append(store, [NoDoc EXCEPT !.id = id, !.title = bsonValue(body.title),
                                   !.author = bsonValue(body.author),
                                   !.price = bsonValue(body.price),
                                   !.coverBlob = bsonValue(body.coverBlob),
                                   !.updatedAt = t])
  ELSE [store EXCEPT ![FirstMatch(id)] = setFields(store[FirstMatch(id)], body, t)]

\* the collection after booksCollection.findOneAndUpdate({ id }, { $set }, ...)
findOneAndUpdate(id, body, t) ==
  IF Matches(id) = {} THEN store
  ELSE [store EXCEPT ![FirstMatch(id)] = setFields(store[FirstMatch(id)], body, t)]

\* an id generator that returns the id of its previous call again
uuidRepeated == IF nextId > 1 THEN nextId - 1 ELSE nextId

\* uuidv4(): an id no earlier call returned and no earlier request named
uuidv4 == nextId

\* the ids a request can name in its path: the issued ones and the unknown one
Addressable == (1 .. (nextId - 1)) \cup {UnknownId}

(* ------------------------------ responses ------------------------------ *)
NoBlob == [folder |-> "", ts |-> 0, name |-> <<>>]
NoSas == [permissions |-> {}, blobName |-> NoBlob, startsOn |-> NoDate, expiresOn |-> NoDate]

NoSasBody == [present |-> FALSE, filename |-> <<>>]

\* the last response sent, whether a store or storage call threw, and the request
\* it answers: op, and what the handler read of it before answering (id, body,
\* sasBody, the blobName of a cover-url request)
NoResp == [op |-> "none", id |-> 0, body |-> NoBody, sasBody |-> NoSasBody,
           raised |-> FALSE, status |-> 0, ok |-> FALSE, doc |-> NoDoc, items |-> <<>>,
           error |-> "", blobName |-> NoBlob, sas |-> NoSas, issuedAt |-> NoDate]

Response(op, status) == [NoResp EXCEPT !.op = op, !.status = status]

\* a catch block that answers without an error status
CaughtSilently(op) == [Response(op, 200) EXCEPT !.raised = TRUE]

\* the catch block of every handler: res.status(500).json({ error: String(err) })
Caught(op) == [Response(op, 500) EXCEPT !.error = "Error", !.raised = TRUE]

(* ------------------------------- startup ------------------------------- *)
Init ==
  /\ pc = "start"
  /\ booksCollection = "undefined"
  /\ store = <<>>
  /\ now = StartMs
  /\ index \in {0, ObjectIdCounterMod - 2}
  /\ nextId = 1
  /\ resp = NoResp
  /\ created = <<>>
  /\ updated = {}
  /\ deleted = {}
  /\ sasLog = <<>>

\* lines 28-31: without MONGODB_CONNECTION_STRING the process exits
CheckEnv ==
  /\ pc = "start"
  /\ \E present \in BOOLEAN : pc' = IF present THEN "connecting" ELSE "exited"
  /\ UNCHANGED <<booksCollection, store, now, index, nextId, resp, created, updated, deleted, sasLog>>

\* app.listen outside the try block: the server listens whatever connect did
ListenRegardless(ok) == "listening"

\* the state of the process after awaiting client.connect()
ConnectOutcome(ok) == IF ok THEN "listening" ELSE "failed"

\* lines 75-97: connect, then set the handles and listen; a throw is logged
Connect ==
  /\ pc = "connecting"
  /\ \E ok \in BOOLEAN :
       /\ pc' = ConnectOutcome(ok)
       /\ booksCollection' = IF ok THEN "Books" ELSE booksCollection
  /\ UNCHANGED <<store, now, index, nextId, resp, created, updated, deleted, sasLog>>

\* the wall clock advances
Tick ==
  /\ now + TickMs <= StartMs + MaxTicks * TickMs
  /\ now' = now + TickMs
  /\ UNCHANGED <<pc, booksCollection, store, index, nextId, resp, created, updated, deleted, sasLog>>

\* a call on booksCollection throws: the handle is undefined, or the store fails
Throws(fail) == fail \/ booksCollection = "undefined"

(* ---------------------------- route handlers --------------------------- *)
\* GET /api/books
GetBooks ==
  /\ pc = "listening"
  /\ \E fail \in BOOLEAN :
       resp' = IF Throws(fail)
               THEN Caught("LIST")
               ELSE [Response("LIST", 200) EXCEPT !.items = listBooks]
  /\ UNCHANGED <<pc, booksCollection, store, now, index, nextId, created, updated, deleted, sasLog>>

\* GET /api/books/:id
GetBook ==
  /\ pc = "listening"
  /\ \E id \in Addressable, fail \in BOOLEAN :
       resp' = IF Throws(fail)
               THEN Caught("GET")
               ELSE IF findOne(id) = NoDoc
               THEN [Response("GET", 404) EXCEPT !.id = id, !.error = "Not found"]
               ELSE [Response("GET", 200) EXCEPT !.id = id, !.doc = findOne(id)]
  /\ UNCHANGED <<pc, booksCollection, store, now, index, nextId, created, updated, deleted, sasLog>>

\* the document built at lines 147-155, with the _id insertOne adds to it
newDoc(body, id, oid, t) ==
  [_id |-> oid, id |-> id, title |-> body.title, author |-> body.author,
   price |-> body.price, coverBlob |-> body.coverBlob, createdAt |-> t,
   updatedAt |-> NoDate]

\* POST /api/books
PostBook ==
  /\ pc = "listening"
  /\ \E body \in PostBodies, fail \in BOOLEAN :
       IF Falsy(body.title) \/ Falsy(body.author)
       THEN /\ resp' = [Response("POST", 400) EXCEPT !.body = body,
                          !.error = "Title and author required"]
            /\ UNCHANGED <<store, index, nextId, created, updated, deleted>>
       ELSE /\ nextId <= MaxBooks
            /\ nextId' = nextId + 1
            /\ LET doc == newDoc(body, uuidv4, ObjectIdGenerate(now, getInc(index)), now)
               IN IF booksCollection = "undefined"
                  THEN /\ resp' = [Caught("POST") EXCEPT !.body = body]
                       /\ created' = Append(created, NoDoc)
                       /\ UNCHANGED <<store, index, updated, deleted>>
                  ELSE /\ index' = getInc(index)
                       /\ IF fail
                          THEN /\ resp' = [Caught("POST") EXCEPT !.body = body]
                               /\ created' = Append(created, NoDoc)
                               /\ UNCHANGED <<store, updated, deleted>>
                          ELSE /\ store' = Append(store, bsonSerialize(doc))
                               /\ resp' = [Response("POST", 201) EXCEPT !.body = body,
                                             !.id = doc.id, !.doc = doc]
                               /\ created' = Append(created, doc)
                               /\ UNCHANGED <<updated, deleted>>
  /\ UNCHANGED <<pc, booksCollection, now, sasLog>>

\* PUT /api/books/:id
PutBook ==
  /\ pc = "listening"
  /\ \E id \in Addressable, body \in PutBodies, fail \in BOOLEAN :
       IF Throws(fail)
       THEN /\ resp' = Caught("PUT")
            /\ UNCHANGED <<store, updated>>
       ELSE /\ store' = findOneAndUpdate(id, body, now)
            /\ IF Matches(id) = {}
               THEN /\ resp' = [Response("PUT", 404) EXCEPT !.id = id, !.body = body,
                                  !.error = "Not found"]
                    /\ UNCHANGED updated
               ELSE /\ resp' = [Response("PUT", 200) EXCEPT !.id = id, !.body = body,
                                  !.doc = store'[FirstMatch(id)]]
                    /\ updated' = updated \cup {id}
  /\ UNCHANGED <<pc, booksCollection, now, index, nextId, created, deleted, sasLog>>

\* what the history keeps of a record once it is deleted: that it was created
Tombstone(id) == [NoDoc EXCEPT !.id = id]

\* DELETE /api/books/:id
DeleteBook ==
  /\ pc = "listening"
  /\ \E id \in Addressable, fail \in BOOLEAN :
       IF Throws(fail)
       THEN /\ resp' = Caught("DELETE")
            /\ UNCHANGED <<store, deleted, updated, created>>
       ELSE /\ store' = deleteOne(id)
            /\ resp' = [Response("DELETE", 200) EXCEPT !.id = id, !.ok = TRUE]
            /\ deleted' = deleted \cup {id}
            /\ updated' = updated \ {id}
            /\ created' = [i \in DOMAIN created |->
                             IF i = id /\ created[i] # NoDoc THEN Tombstone(id)
                             ELSE created[i]]
  /\ UNCHANGED <<pc, booksCollection, now, index, nextId, sasLog>>

(* --------------------------- signed URL endpoints ---------------------- *)
Letters == {"a", "b", "c", "d", "e", "f", "g", "h", "i", "j", "k", "l", "m", "n", "o",
            "p", "q", "r", "s", "t", "u", "v", "w", "x", "y", "z",
            "A", "B", "C", "D", "E", "F", "G", "H", "I", "J", "K", "L", "M", "N", "O",
            "P", "Q", "R", "S", "T", "U", "V", "W", "X", "Y", "Z"}
Digits == {"0", "1", "2", "3", "4", "5", "6", "7", "8", "9"}

\* a character the pattern [^a-zA-Z0-9-.] does not match
IsSafeChar(c) == c \in Letters \cup Digits \cup {"-", "."}

\* filename.replace(/[^a-zA-Z0-9-.]/g, "")
safeName(filename) == SelectSeq(filename, IsSafeChar)

\* `covers/${Date.now()}-${safeName}`
blobNameOf(t, filename) == [folder |-> "covers", ts |-> t, name |-> safeName(filename)]

\* request bodies of POST /api/generate-sas: the strings "my f!.p", "myf.p", "" and
\* a body without filename
SasBodies ==
  { [present |-> TRUE, filename |-> <<"m", "y", " ", "f", "!", ".", "p">>],
    [present |-> TRUE, filename |-> <<"m", "y", "f", ".", "p">>],
    [present |-> TRUE, filename |-> <<"c", ".", "p">>],
    [present |-> TRUE, filename |-> <<>>],
    [present |-> FALSE, filename |-> <<>>] }

\* the blob query parameter of GET /api/cover-url; NoBlob is a request without it
BlobParams == {NoBlob, [folder |-> "covers", ts |-> 7, name |-> <<"c", ".", "p">>]}

\* the SAS token carries its times without milliseconds
truncatedISO8061Date(t) == (t \div MsPerSecond) * MsPerSecond

\* an upload grant that also sets permissions.read
uploadPermissionsWithRead == {"create", "write", "read"}

uploadPermissions == {"create", "write"}

readPermissions == {"read"}

\* generateBlobSASQueryParameters({ containerName, blobName, permissions, startsOn, expiresOn })
generateBlobSASQueryParameters(blobName, permissions, startsOn, expiresOn) ==
  [permissions |-> permissions, blobName |-> blobName,
   startsOn |-> truncatedISO8061Date(startsOn),
   expiresOn |-> truncatedISO8061Date(expiresOn)]

\* POST /api/generate-sas; the first logCap blob names returned are kept in sasLog
SasHandler(logCap) ==
  /\ pc = "listening"
  /\ \E body \in SasBodies, fail \in BOOLEAN :
       IF ~body.present \/ body.filename = <<>>
       THEN /\ resp' = [Response("SAS", 400) EXCEPT !.sasBody = body, !.error = "filename required"]
            /\ UNCHANGED sasLog
       ELSE IF fail
       THEN /\ resp' = [Caught("SAS") EXCEPT !.sasBody = body]
            /\ UNCHANGED sasLog
       ELSE LET blobName == blobNameOf(now, body.filename)
                startsOn == now
                expiresOn == startsOn + UploadWindowMs
            IN /\ resp' = [Response("SAS", 200) EXCEPT !.sasBody = body,
                             !.blobName = blobName, !.issuedAt = startsOn,
                             !.sas = generateBlobSASQueryParameters(
                                       blobName, uploadPermissions, startsOn, expiresOn)]
               /\ sasLog' = IF Len(sasLog) < logCap THEN Append(sasLog, blobName)
                            ELSE sasLog
  /\ UNCHANGED <<pc, booksCollection, store, now, index, nextId, created, updated, deleted>>

GenerateSas == SasHandler(MaxSas)

\* GET /api/cover-url
CoverUrl ==
  /\ pc = "listening"
  /\ \E blob \in BlobParams, fail \in BOOLEAN :
       IF blob = NoBlob
       THEN resp' = [Response("COVER", 400) EXCEPT !.error = "blob param required"]
       ELSE IF fail
       THEN resp' = [Caught("COVER") EXCEPT !.blobName = blob]
       ELSE LET startsOn == now
                expiresOn == startsOn + ReadWindowMs
            IN resp' = [Response("COVER", 302) EXCEPT
                          !.blobName = blob, !.issuedAt = startsOn,
                          !.sas = generateBlobSASQueryParameters(
                                    blob, readPermissions, startsOn, expiresOn)]
  /\ UNCHANGED <<pc, booksCollection, store, now, index, nextId, created, updated, deleted, sasLog>>

(* ---------------------------- specifications --------------------------- *)
\* startup, the clock and the catalog routes
Next == CheckEnv \/ Connect \/ Tick \/ GetBooks \/ GetBook \/ PostBook \/ PutBook
          \/ DeleteBook

Spec == Init /\ [][Next]_vars

\* startup, the clock and the signed URL routes
NextSas == CheckEnv \/ Connect \/ Tick \/ GenerateSas \/ CoverUrl

SpecSas == Init /\ [][NextSas]_vars

\* every route together, over a catalog of at most ApiBooks issued ids and
\* without the history of blob names
PostBookApi == PostBook /\ nextId' <= ApiBooks + 1

GenerateSasApi == SasHandler(0)

NextApi == CheckEnv \/ Connect \/ Tick \/ GetBooks \/ GetBook \/ PostBookApi \/ PutBook
             \/ DeleteBook \/ GenerateSasApi \/ CoverUrl

SpecApi == Init /\ [][NextApi]_vars
(* ------------------------------- claims -------------------------------- *)
\* the step just taken is the handler of the named route: every handler writes
\* resp, and Tick, the only other step after startup, moves the clock
Handled(op) == resp'.op = op /\ now' = now

\* a body POST /api/books accepts
ValidBook(body) == ~Falsy(body.title) /\ ~Falsy(body.author)

\* the stored or returned value w carries the request's value v
Reflects(v, w) == w = (IF v = Absent THEN Null ELSE v)

\* C1: a POST /books with non-empty title and author that the store serves is
\* answered 201 with a non-empty id, the supplied title, author, price and
\* coverBlob and a createdAt; and a later GET /books/{id} the store serves, with no
\* update or delete of that id in between, is answered 200 with the identical record.
C1_CreateReadRoundTrip ==
  /\ (resp.op = "POST" /\ ValidBook(resp.body) /\ ~resp.raised)
       => /\ resp.status = 201
          /\ resp.doc.id # 0
          /\ resp.doc.title = resp.body.title
          /\ resp.doc.author = resp.body.author
          /\ resp.doc.price = resp.body.price
          /\ resp.doc.coverBlob = resp.body.coverBlob
          /\ resp.doc.createdAt # NoDate
  /\ (/\ resp.op = "GET" /\ ~resp.raised
      /\ resp.id \in DOMAIN created
      /\ created[resp.id].createdAt # NoDate
      /\ resp.id \notin (updated \cup deleted))
       => (resp.status = 200 /\ resp.doc = created[resp.id])

\* what PUT /books/{id} answers and does, by whether the id is in the collection
PutContract ==
  IF Matches(resp'.id) # {}
  THEN /\ resp'.status = 200
       /\ \E i \in DOMAIN store' : store'[i] = resp'.doc
       /\ resp'.doc.id = resp'.id
       /\ Reflects(resp'.body.title, resp'.doc.title)
       /\ Reflects(resp'.body.author, resp'.doc.author)
       /\ Reflects(resp'.body.price, resp'.doc.price)
       /\ Reflects(resp'.body.coverBlob, resp'.doc.coverBlob)
       /\ resp'.doc.updatedAt = now
       /\ resp'.doc.updatedAt # NoDate
  ELSE /\ resp'.status = 404
       /\ store' = store

\* C2 as stated: every PUT /books/{id} is answered 200 with the post-update record
\* when the id is in the collection, and 404 with the collection unchanged when not.
C2_PutOriginal == [][Handled("PUT") => PutContract]_vars

\* C2 amended: every PUT /books/{id} during which the store raises no failure is
\* answered 200 with the post-update record (request values reflected, updatedAt
\* set) when the id is in the collection, and 404 with the collection unchanged
\* when it is not, also when the id was deleted earlier.
C2_PutAbsentFailure == [][(Handled("PUT") /\ ~resp'.raised) => PutContract]_vars

C2_Witness ==
  /\ resp.op = "PUT" /\ resp.status = 404 /\ resp.id \in deleted
  /\ Len(store) > 0

\* C3: a DELETE /books/{id} without upstream failure is answered 200 with the
\* acknowledgment whether or not the id exists, leaves no record with that id and
\* every other record as it was, a second delete of the id changes nothing more,
\* and a GET /books/{id} of a deleted id that the store serves is answered 404.
C3_DeleteIdempotent ==
  [][/\ (Handled("DELETE") /\ ~resp'.raised)
          => /\ resp'.status = 200 /\ resp'.ok
             /\ \A i \in DOMAIN store' : store'[i].id # resp'.id
             /\ LET Other(d) == d.id # resp'.id IN store' = SelectSeq(store, Other)
             /\ \A id \in Ids : resp'.id = id => (deleteOne(id))' = store'
     /\ (Handled("GET") /\ ~resp'.raised /\ resp'.id \in deleted)
          => resp'.status = 404]_vars

C3_Witness ==
  /\ resp.op = "GET" /\ resp.status = 404 /\ resp.id \in deleted
  /\ resp.id \in DOMAIN created /\ created[resp.id] = Tombstone(resp.id)
  /\ Len(store) > 0

\* C4: GET /books returns every record of the collection, and a record whose
\* create came later stands before every record created earlier.
C4_ListNewestFirst ==
  (resp.op = "LIST" /\ resp.status = 200)
    => /\ Len(resp.items) = Len(store)
       /\ \A i \in DOMAIN store : \E k \in DOMAIN resp.items : resp.items[k] = store[i]
       /\ \A i, j \in DOMAIN store :
            i < j => \E k, l \in DOMAIN resp.items :
                       k < l /\ resp.items[k] = store[j] /\ resp.items[l] = store[i]
\* the request lacks a parameter its handler requires
MissingParam(r) ==
  \/ r.op = "POST" /\ ~ValidBook(r.body)
  \/ r.op = "SAS" /\ (~r.sasBody.present \/ r.sasBody.filename = <<>>)
  \/ r.op = "COVER" /\ r.blobName = NoBlob

\* C5: a request lacking a required parameter is answered 400, a GET or PUT of an
\* absent record 404, a request during which the store or storage client raises
\* 500 with the error's description; every such answer carries an error field, no
\* other answer does, and a request answered 400 writes nothing to the store and
\* issues no signed URL.
C5_ErrorMapping ==
  /\ [](/\ MissingParam(resp) => resp.status = 400
        /\ (resp.raised /\ ~MissingParam(resp))
             => (resp.status = 500 /\ resp.error = "Error")
        /\ resp.status = 400 => MissingParam(resp)
        /\ resp.status = 404 => resp.op \in {"GET", "PUT"}
        /\ resp.status = 500 => resp.raised
        /\ resp.status \in {400, 404, 500} <=> resp.error # ""
        /\ resp.status \in {0, 200, 201, 302, 400, 404, 500})
  /\ [][/\ ((Handled("GET") \/ Handled("PUT")) /\ ~resp'.raised)
             => (resp'.status = 404 <=> Matches(resp'.id) = {})
        /\ (resp'.status = 400 /\ now' = now)
             => (store' = store /\ sasLog' = sasLog /\ resp'.sas = NoSas)]_vars

C5_Witness ==
  /\ resp.op = "SAS" /\ resp.status = 400 /\ resp.sasBody.present
  /\ store # <<>>

\* C6: a request is served only after the connection handshake has succeeded, so
\* the collection handle is defined whenever a handler runs; after a failed
\* handshake, or without a connection string, the process never listens.
C6_StartupOrdering ==
  /\ [](resp.op # "none" => (pc = "listening" /\ booksCollection = "Books"))
  /\ [](pc = "listening" => booksCollection # "undefined")
  /\ [][(pc = "failed" \/ pc = "exited") => (pc' = pc /\ resp' = NoResp)]_vars

C6_Witness == pc = "failed" /\ now > StartMs /\ resp = NoResp

\* C7: any two successful POST /generate-sas requests return different blob names,
\* each covers/<millisecond timestamp>-<filename without the characters that are
\* not letters, digits, hyphen or dot>.
C7_BlobNamesDiffer ==
  /\ \A i, j \in DOMAIN sasLog : i # j => sasLog[i] # sasLog[j]
  /\ (resp.op = "SAS" /\ resp.status = 200)
       => /\ resp.blobName.folder = "covers"
          /\ resp.blobName.ts = resp.issuedAt
          /\ LET Kept(c) == c \in Letters \cup Digits \cup {"-", "."}
             IN resp.blobName.name = SelectSeq(resp.sasBody.filename, Kept)

C9_RecordIdentity ==
  /\ [](\A i, j \in DOMAIN store : i # j => store[i].id # store[j].id)
  /\ [](\A i \in DOMAIN store : store[i].id \notin updated => store[i].updatedAt = NoDate)
  /\ [][/\ \A i \in DOMAIN store, j \in DOMAIN store' :
               store[i].id = store'[j].id => store[i].createdAt = store'[j].createdAt
        /\ Handled("PUT")
             => /\ Len(store') = Len(store)
                /\ \A i \in DOMAIN store :
                     store'[i].id = store[i].id /\ store'[i]._id = store[i]._id]_vars

C9_Witness ==
  /\ Len(store) = 2
  /\ store[1].updatedAt # NoDate /\ store[1].updatedAt > store[1].createdAt
  /\ store[2].updatedAt = NoDate

\* C10: after a PUT answered 200 the record's title, author, price and coverBlob
\* are the request's values, null where the request omits the field, its
\* updatedAt is the time of the update, its other fields are as before, and every
\* other record is as before.
C10_FullReplace ==
  [][(Handled("PUT") /\ resp'.status = 200)
       => /\ Len(store') = Len(store)
          /\ \A i \in DOMAIN store :
               IF store[i].id = resp'.id
               THEN /\ Reflects(resp'.body.title, store'[i].title)
                    /\ Reflects(resp'.body.author, store'[i].author)
                    /\ Reflects(resp'.body.price, store'[i].price)
                    /\ Reflects(resp'.body.coverBlob, store'[i].coverBlob)
                    /\ store'[i].updatedAt = now
                    /\ store'[i]._id = store[i]._id
                    /\ store'[i].id = store[i].id
                    /\ store'[i].createdAt = store[i].createdAt
               ELSE store'[i] = store[i]]_vars

C10_Witness ==
  /\ resp.op = "PUT" /\ resp.status = 200
  /\ resp.body.price = Absent /\ resp.doc.price = Null
  /\ created[resp.id].price \notin {Absent, Null}
  /\ Len(store) = 2
====
